---- MODULE Spec2Model ----
(***************************************************************************)
(* PPSSPP headless test runner (headless/Headless.cpp): main() modelled as *)
(* a state machine.  One process boots one test image, drives the          *)
(* emulation core in quanta until it stops or the deadline passes, shuts   *)
(* down, optionally compares the collected output, and reports TeamCity    *)
(* events on stdout.                                                       *)
(*                                                                         *)
(* Every per-process variable is a function over Procs.  Main is the       *)
(* process under study; Twin is a second process started on the same       *)
(* command line with "--teamcity" put in front, used only by SpecPair,     *)
(* which runs both in lock-step against the same collaborator behaviour.   *)
(***************************************************************************)
EXTENDS Integers, Sequences, FiniteSets, TLC

\* ------------------------------------------------------------------ bounds

\* Longest arbitrary command line (argv without argv[0]) drawn in Init.
MaxArgs == 2
\* Most quanta (PSP_RunLoopFor calls) one run may execute.
MaxQuanta == 2
\* Most segments a boot file path of SpecName is put together from.
MaxSegments == 4

\* ------------------------------------------------------- program constants

Main == "main"
Twin == "twin"
Procs == {Main, Twin}

\* A C string is modelled as the tuple of its pieces, so that a string built
\* by concatenation is the concatenation of tuples.  NULL is the null
\* const char * (bootFilename = 0, mountIso = 0, printUsage's reason).
NULL == <<>>
Str(s) == <<s>>

GPU_NULL == "GPU_NULL"
GPU_GLES == "GPU_GLES"
GPU_SOFTWARE == "GPU_SOFTWARE"
GPU_DIRECTX9 == "GPU_DIRECTX9"

CORE_RUNNING == "CORE_RUNNING"
CORE_NEXTFRAME == "CORE_NEXTFRAME"
CORE_POWERDOWN == "CORE_POWERDOWN"

\* std::numeric_limits<float>::infinity(): a deadline no time exceeds.
Infinity == -1

\* ------------------------------------------------------ command-line input

\* One argv element is <<head, value>>: head is its text up to and including
\* the first '=' (the whole text when it has none), value is what follows.
\* strncmp(a, "--x=", n) = 0 && strlen(a) > n  is  head = "--x=" /\ value # "".
Arg(head, value) == <<head, value>>
Name(a) == a[1]
Rest(a) == a[2]

TeamCityArg == Arg("--teamcity", "")

\* The arguments command lines are drawn from.
ArgPool ==
    { Arg("a.prx", ""), Arg("--bogus", ""), Arg("-m", ""), Arg("-c", ""),
      Arg("--graphics=", "foo"), Arg("--graphics=", "GLES"),
      Arg("--timeout=", "0"), Arg("--timeout=", "-1"), TeamCityArg }

RECURSIVE SeqsUpTo(_, _)
SeqsUpTo(S, n) ==
    IF n = 0 THEN {<<>>}
    ELSE LET shorter == SeqsUpTo(S, n - 1)
         IN  shorter \cup {Append(s, x) : s \in {t \in shorter : Len(t) = n - 1}, x \in S}

\* The options a well-formed command line may carry after the boot file.
Options == <<Arg("-c", ""), Arg("--timeout=", "0"), TeamCityArg, Arg("--graphics=", "GLES")>>

\* s restricted to the positions in keep, in order.
RECURSIVE Pick(_, _, _)
Pick(s, keep, i) ==
    IF i > Len(s) THEN <<>>
    ELSE (IF i \in keep THEN <<s[i]>> ELSE <<>>) \o Pick(s, keep, i + 1)

WellFormed == {<<Arg("a.prx", "")>> \o Pick(Options, keep, 1) : keep \in SUBSET (1 .. Len(Options))}

\* The command lines Init draws from: every sequence of at most MaxArgs
\* arguments of the pool, and the boot file followed by any of the options.
CommandLines == SeqsUpTo(ArgPool, MaxArgs) \cup WellFormed

\* The command lines SpecLive draws from: the boot file, a timeout, and any
\* of -c and --teamcity. The finite timeouts are less than MaxQuanta ticks,
\* so that a clock moving on by a tick each quantum passes the deadline
\* within the quanta the model allows.
LiveTimeouts == {"-1", "0", "1"}

LiveOptions == <<Arg("-c", ""), TeamCityArg>>

LiveCommandLines ==
    { <<Arg("a.prx", ""), Arg("--timeout=", v)>> \o Pick(LiveOptions, keep, 1) :
        v \in LiveTimeouts, keep \in SUBSET (1 .. Len(LiveOptions)) }

\* The pieces the boot file paths of SpecName are put together from.
Segments == {"tests/", "pspautotests/", "cpu/alu", ".prx", "Tests/", ".PRX"}

\* The strings of ss, concatenated.
RECURSIVE Join(_)
Join(ss) == IF ss = <<>> THEN "" ELSE ss[1] \o Join(Tail(ss))

Paths == {Join(ss) : ss \in SeqsUpTo(Segments, MaxSegments)}

\* The command lines SpecName draws from: --teamcity and a boot file path.
NamedCommandLines == {<<TeamCityArg, Arg(path, "")>> : path \in Paths}

\* ------------------------------------------------- main: argument parsing

\* tolower() over the characters of the backend names the pool offers:
\* strcasecmp(x, y) = 0  is  ToLower(x) = ToLower(y).
ToLower(s) ==
    CASE s = "GLES" -> "gles"
      [] s = "Software" -> "software"
      [] s = "DirectX9" -> "directx9"
      [] s = "NULL" -> "null"
      [] OTHER -> s

\* strtod(s, NULL): the number a numeric text denotes, 0.0 for any other text.
StrToD(s) ==
    CASE s = "-1" -> -1
      [] s = "0" -> 0
      [] s = "1" -> 1
      [] s = "2" -> 2
      [] OTHER -> 0

\* The locals of main before the parsing loop, with the global teamCityMode;
\* returned/reason record an early "printUsage(argv[0], reason); return 1".
InitialOptions ==
    [ fullLog |-> FALSE, useJit |-> TRUE, autoCompare |-> FALSE,
      gpuCore |-> GPU_NULL, bootFilename |-> NULL, mountIso |-> NULL,
      screenshotFilename |-> NULL, readMount |-> FALSE, timeout |-> -1,
      teamCityMode |-> FALSE, returned |-> FALSE, reason |-> NULL ]

Usage(o, why) == [o EXCEPT !.returned = TRUE, !.reason = why]

\* --graphics=NAME with a non-empty NAME.
ParseGraphics(o, gpuName) ==
    CASE ToLower(gpuName) = "gles" -> [o EXCEPT !.gpuCore = GPU_GLES]
      [] ToLower(gpuName) = "software" -> [o EXCEPT !.gpuCore = GPU_SOFTWARE]
      [] ToLower(gpuName) = "directx9" -> [o EXCEPT !.gpuCore = GPU_DIRECTX9]
      [] ToLower(gpuName) = "null" -> [o EXCEPT !.gpuCore = GPU_NULL]
      [] OTHER -> Usage(o, Str("Unknown gpu backend specified after --graphics="))

\* An argument no option matches once the boot file is known.
ParseUnexpected(o, a) ==
    IF a = Arg("--help", "") \/ a = Arg("-h", "")
    THEN Usage(o, NULL)
    ELSE Usage(o, Str("Unexpected argument ") \o a)

\* One iteration of the parsing loop on argument a.
ParseArg(o, a) ==
    IF o.readMount
    THEN [o EXCEPT !.mountIso = a, !.readMount = FALSE]
    ELSE
    CASE a = Arg("-m", "") \/ a = Arg("--mount", "") -> [o EXCEPT !.readMount = TRUE]
      [] a = Arg("-l", "") \/ a = Arg("--log", "") -> [o EXCEPT !.fullLog = TRUE]
      [] a = Arg("-i", "") -> [o EXCEPT !.useJit = FALSE]
      [] a = Arg("-j", "") -> [o EXCEPT !.useJit = TRUE]
      [] a = Arg("-c", "") \/ a = Arg("--compare", "") -> [o EXCEPT !.autoCompare = TRUE]
      [] Name(a) = "--graphics=" /\ Rest(a) # "" -> ParseGraphics(o, Rest(a))
      [] a = Arg("--graphics", "") -> [o EXCEPT !.gpuCore = GPU_GLES]
      [] Name(a) = "--screenshot=" /\ Rest(a) # "" ->
            [o EXCEPT !.screenshotFilename = Str(Rest(a))]
      [] Name(a) = "--timeout=" /\ Rest(a) # "" ->
            [o EXCEPT !.timeout = StrToD(Rest(a))]
      [] a = TeamCityArg -> [o EXCEPT !.teamCityMode = TRUE]
      [] OTHER -> IF o.bootFilename = NULL
                  THEN [o EXCEPT !.bootFilename = a]
                  ELSE ParseUnexpected(o, a)

\* The parsing loop from argument i on; it stops at the first return.
RECURSIVE ParseLoop(_, _, _)
ParseLoop(o, args, i) ==
    IF i > Len(args) \/ o.returned THEN o
    ELSE ParseLoop(ParseArg(o, args[i]), args, i + 1)

\* The two checks after the loop.
ParseChecks(o, args) ==
    IF o.returned THEN o
    ELSE IF o.readMount THEN Usage(o, Str("Missing argument after -m"))
    ELSE IF o.bootFilename = NULL
    THEN Usage(o, IF Len(args) = 0 THEN NULL ELSE Str("No executable specified"))
    ELSE o

ParseArgs(args) == ParseChecks(ParseLoop(InitialOptions, args, 1), args)

\* ------------------------------------------------- ChopFront, ChopEnd

\* The text of an argument.
Text(a) == Name(a) \o Rest(a)

\* s.substr(pos): s from position pos (counted from 0) to its end.
Substr(s, pos) == SubSeq(s, pos + 1, Len(s))

\* s.substr(pos, n), for pos + n within s.
SubstrN(s, pos, n) == SubSeq(s, pos + 1, pos + n)

ChopFront(s, front) ==
    IF Len(s) >= Len(front) /\ SubstrN(s, 0, Len(front)) = front
    THEN Substr(s, Len(front))
    ELSE s

\* Mutant of ChopEnd: the end is cut off without being compared.
ChopEndUncompared(s, end) ==
    IF Len(s) >= Len(end)
    THEN SubstrN(s, 0, Len(s) - Len(end))
    ELSE s

ChopEnd(s, end) ==
    IF Len(s) >= Len(end) /\ Substr(s, Len(s) - Len(end)) = end
    THEN SubstrN(s, 0, Len(s) - Len(end))
    ELSE s

\* teamCityName as main guesses it from the boot file name.
TestName(bootFilename) ==
    ChopEnd(ChopFront(ChopFront(bootFilename, "tests/"), "pspautotests/tests/"), ".prx")

\* ------------------------------------------------------------------ state

VARIABLES
    argv,           \* the command line, argv[1 .. argc-1]
    pc,             \* where main is: "main", "InitGL", "PSP_Init", "loop",
                    \*   "shutdown", "report", "exit"
    opts,           \* main's option locals and the global teamCityMode
    teamCityName,   \* the global teamCityName
    glWorking,      \* result of host->InitGL
    coreParameter,  \* the CoreParameter handed to PSP_Init
    coreState,      \* the global coreState
    doCompare,      \* main's doCompare
    deadline,       \* main's deadline
    now,            \* the wall clock, as time_now() reads it after time_update()
    output,         \* std::string output, the collected emulator log
    quanta,         \* PSP_RunLoopFor calls made so far
    trace,          \* what the process has done to the outside: collaborator
                    \*   calls and writes to stdout/stderr, in order
    exitCode        \* main's return value, meaningful once pc = "exit"

vars == <<argv, pc, opts, teamCityName, glWorking, coreParameter, coreState, doCompare,
          deadline, now, output, quanta, trace, exitCode>>

\* One entry of trace.
Did(op, msg) == [op |-> op, msg |-> msg]

\* The four TeamCity service messages.
ReportingOps == {"testStarted", "testIgnored", "testFailed", "testFinished"}

\* TeamCityPrint(fmt, ...): prints the message when teamCityMode is set.
TeamCityPrint(teamCityMode, op, msg) ==
    IF teamCityMode THEN <<Did(op, msg)>> ELSE <<>>

\* Core_Stop(): the core leaves CORE_RUNNING.
Core_Stop == CORE_POWERDOWN

\* What PSP_RunLoopFor may leave in coreState.
CoreOutcomes == {CORE_RUNNING, CORE_NEXTFRAME, CORE_POWERDOWN}

\* What CompareOutput may find.
Verdicts == {"Pass", "Fail", "Error"}

\* The emulated program's printf text during one quantum: none or one line.
EmuTexts == {<<>>, <<"emu">>}

NoCoreParameter ==
    [ gpuCore |-> GPU_NULL, fileToStart |-> NULL, mountIso |-> NULL,
      printfEmuLog |-> FALSE, collectEmuLog |-> FALSE ]

\* The command line of the twin process: the same, with --teamcity in front.
TwinArgs(args) == <<TeamCityArg>> \o args

\* The state at the entry of main, on one of the given command lines.
InitOn(lines) ==
    /\ argv \in {[p \in Procs |-> IF p = Main THEN a ELSE TwinArgs(a)] : a \in lines}
    /\ pc = [p \in Procs |-> "main"]
    /\ opts = [p \in Procs |-> InitialOptions]
    /\ teamCityName = [p \in Procs |-> ""]
    /\ glWorking = [p \in Procs |-> FALSE]
    /\ coreParameter = [p \in Procs |-> NoCoreParameter]
    /\ coreState = [p \in Procs |-> CORE_POWERDOWN]
    /\ doCompare = [p \in Procs |-> FALSE]
    /\ deadline = [p \in Procs |-> Infinity]
    /\ now = [p \in Procs |-> 0]
    /\ output = [p \in Procs |-> <<>>]
    /\ quanta = [p \in Procs |-> 0]
    /\ trace = [p \in Procs |-> <<>>]
    /\ exitCode = [p \in Procs |-> 0]

Init == InitOn(CommandLines)

\* f with the processes of R set to what g gives them.
Upd(f, R, g) == [p \in Procs |-> IF p \in R THEN g[p] ELSE f[p]]

\* ---------------------------------------------- main: lines 130 to 211

\* Parse the command line; on malformed input print the usage and return 1.
Start(R) ==
    /\ \A p \in R : pc[p] = "main"
    /\ LET o == [p \in Procs |-> ParseArgs(argv[p])]
       IN  /\ opts' = Upd(opts, R, o)
           /\ pc' = Upd(pc, R, [p \in Procs |-> IF o[p].returned THEN "exit" ELSE "InitGL"])
           /\ trace' = Upd(trace, R, [p \in Procs |->
                  IF o[p].returned
                  THEN trace[p] \o <<Did("printUsage", o[p].reason)>>
                  ELSE trace[p]])
           /\ exitCode' = Upd(exitCode, R, [p \in Procs |->
                  IF o[p].returned THEN 1 ELSE exitCode[p]])
    /\ UNCHANGED <<argv, teamCityName, glWorking, coreParameter, coreState, doCompare,
                   deadline, now, output, quanta>>

\* ---------------------------------------------- main: lines 213 to 289

\* Mutant of MakeCoreParameter: coreParameter.gpuCore = gpuCore.
MakeCoreParameterKeepsBackend(o, working) ==
    [ gpuCore |-> o.gpuCore,
      fileToStart |-> o.bootFilename,
      mountIso |-> IF o.mountIso # NULL THEN o.mountIso ELSE Str(""),
      printfEmuLog |-> ~o.autoCompare,
      collectEmuLog |-> o.autoCompare ]

\* Mutant of MakeCoreParameter: coreParameter.printfEmuLog = true.
MakeCoreParameterEchoes(o, working) ==
    [ gpuCore |-> IF working THEN o.gpuCore ELSE GPU_NULL,
      fileToStart |-> o.bootFilename,
      mountIso |-> IF o.mountIso # NULL THEN o.mountIso ELSE Str(""),
      printfEmuLog |-> TRUE,
      collectEmuLog |-> o.autoCompare ]

\* coreParameter as main fills it in.
MakeCoreParameter(o, working) ==
    [ gpuCore |-> IF working THEN o.gpuCore ELSE GPU_NULL,
      fileToStart |-> o.bootFilename,
      mountIso |-> IF o.mountIso # NULL THEN o.mountIso ELSE Str(""),
      printfEmuLog |-> ~o.autoCompare,
      collectEmuLog |-> o.autoCompare ]

\* Create the host for the chosen backend and ask it for a GL context, which
\* it reports as working or not; then set up logging and the core parameter,
\* and in TeamCity mode derive the test name.
InitGL(R, working) ==
    /\ \A p \in R : pc[p] = "InitGL"
    /\ glWorking' = Upd(glWorking, R, [p \in Procs |-> working])
    /\ teamCityName' = Upd(teamCityName, R, [p \in Procs |->
           IF opts[p].teamCityMode
           THEN TestName(Text(opts[p].bootFilename))
           ELSE teamCityName[p]])
    /\ coreParameter' = Upd(coreParameter, R,
           [p \in Procs |-> MakeCoreParameter(opts[p], working)])
    /\ trace' = Upd(trace, R, [p \in Procs |->
           trace[p] \o <<Did("InitGL", Str(opts[p].gpuCore))>>])
    /\ pc' = Upd(pc, R, [p \in Procs |-> "PSP_Init"])
    /\ UNCHANGED <<argv, opts, coreState, doCompare, deadline, now, output,
                   quanta, exitCode>>

\* ---------------------------------------------- main: lines 291 to 309

\* Mutant of BootFailure: testStarted is printed before the result of
\* PSP_Init is looked at.
BootFailureAfterStarted(o, cp) ==
    TeamCityPrint(o.teamCityMode, "testStarted", NULL)
    \o <<Did("stderr", Str("Failed to start ") \o cp.fileToStart),
         Did("printf", Str("TESTERROR"))>>
    \o TeamCityPrint(o.teamCityMode, "testIgnored", Str("PRX/ELF missing"))

\* What main does when PSP_Init fails.
BootFailure(o, cp) ==
    <<Did("stderr", Str("Failed to start ") \o cp.fileToStart),
      Did("printf", Str("TESTERROR"))>>
    \o TeamCityPrint(o.teamCityMode, "testIgnored", Str("PRX/ELF missing"))

\* What main does between a successful PSP_Init and the loop.
BootSuccess(o) ==
    TeamCityPrint(o.teamCityMode, "testStarted", NULL)
    \o <<Did("BootDone", NULL)>>
    \o (IF o.screenshotFilename # NULL
        THEN <<Did("SetComparisonScreenshot", o.screenshotFilename)>>
        ELSE <<>>)

\* Mutant of Deadline: double deadline = time_now() + timeout.
DeadlineOfAnyTimeout(timeout, t) == t + timeout

\* double deadline = timeout < 0.0 ? infinity : time_now() + timeout
Deadline(timeout, t) == IF timeout < 0 THEN Infinity ELSE t + timeout

\* Boot the core, which succeeds or fails (trace keeps the call with its
\* result); the clock has moved on by dt when main reads it for the deadline.
PSP_Init(R, ok, dt) ==
    /\ \A p \in R : pc[p] = "PSP_Init"
    /\ trace' = Upd(trace, R, [p \in Procs |->
           trace[p] \o <<Did("PSP_Init", Str(IF ok THEN "true" ELSE "false"))>>
                   \o (IF ok THEN BootSuccess(opts[p])
                             ELSE BootFailure(opts[p], coreParameter[p]))])
    /\ IF ok
       THEN /\ now' = Upd(now, R, [p \in Procs |-> now[p] + dt])
            /\ doCompare' = Upd(doCompare, R, [p \in Procs |-> TRUE])
            /\ deadline' = Upd(deadline, R,
                   [p \in Procs |-> Deadline(opts[p].timeout, now[p] + dt)])
            /\ coreState' = Upd(coreState, R, [p \in Procs |-> CORE_RUNNING])
            /\ pc' = Upd(pc, R, [p \in Procs |-> "loop"])
            /\ UNCHANGED exitCode
       ELSE /\ exitCode' = Upd(exitCode, R, [p \in Procs |-> 1])
            /\ pc' = Upd(pc, R, [p \in Procs |-> "exit"])
            /\ UNCHANGED <<now, doCompare, deadline, coreState>>
    /\ UNCHANGED <<argv, teamCityName, opts, glWorking, coreParameter, output, quanta>>

\* ---------------------------------------------- main: lines 310 to 330

\* Where the emulated program's printf text goes inside the core: echoed at
\* once when printfEmuLog is set, appended to *collectEmuLog when that is set.
EmuEcho(cp, text) ==
    IF cp.printfEmuLog /\ text # <<>> THEN <<Did("emuPrintf", text)>> ELSE <<>>

EmuCollect(cp, out, text) == IF cp.collectEmuLog THEN out \o text ELSE out

\* Mutant of AfterFrame: coreState is left as the quantum set it.
AfterFrameUnchanged(cs) == cs

\* if (coreState == CORE_NEXTFRAME) { coreState = CORE_RUNNING; SwapBuffers(); }
AfterFrame(cs) == IF cs = CORE_NEXTFRAME THEN CORE_RUNNING ELSE cs

FrameSwap(cs) == IF cs = CORE_NEXTFRAME THEN <<Did("SwapBuffers", NULL)>> ELSE <<>>

\* Mutant of PastDeadline: time_now() >= deadline.
PastDeadlineInclusive(t, d) == d # Infinity /\ t >= d

\* Mutant of PastDeadline: time_now() < deadline.
PastDeadlineReversed(t, d) == d # Infinity /\ t < d

\* time_now() > deadline
PastDeadline(t, d) == d # Infinity /\ t > d

\* Mutant of DeadlineCheck: the deadline is looked at only while the core
\* is still running.
DeadlineCheckWhileRunning(cs, t, d) == AfterFrame(cs) = CORE_RUNNING /\ PastDeadline(t, d)

\* Line 321 is reached at the end of every iteration, whatever coreState the
\* quantum left.
DeadlineCheck(cs, t, d) == PastDeadline(t, d)

\* Mutant of Timeout: the failure is reported before the output is printed.
TimeoutReportedFirst(o, out) ==
    TeamCityPrint(o.teamCityMode, "testFailed", Str("Test timeout"))
    \o <<Did("printf", out), Did("SendDebugOutput", Str("TIMEOUT")), Did("Core_Stop", NULL)>>

\* Mutant of Timeout: the output is printed only for the TeamCity reader.
TimeoutPrintsForTeamCity(o, out) ==
    (IF o.teamCityMode THEN <<Did("printf", out)>> ELSE <<>>)
    \o <<Did("SendDebugOutput", Str("TIMEOUT"))>>
    \o TeamCityPrint(o.teamCityMode, "testFailed", Str("Test timeout"))
    \o <<Did("Core_Stop", NULL)>>

\* The body of "if (time_now() > deadline)", in the order main does it.
Timeout(o, out) ==
    <<Did("printf", out), Did("SendDebugOutput", Str("TIMEOUT"))>>
    \o TeamCityPrint(o.teamCityMode, "testFailed", Str("Test timeout"))
    \o <<Did("Core_Stop", NULL)>>

\* Mutant of LoopContinues: the loop goes on after the core has stopped.
LoopContinuesOnceStopped(cs) == cs \in {CORE_RUNNING, CORE_POWERDOWN}

\* while (coreState == CORE_RUNNING)
LoopContinues(cs) == cs = CORE_RUNNING

\* One iteration of the loop: the core runs one quantum, leaving cs in
\* coreState and printing text, while the clock moves on by dt (trace keeps
\* the call with the coreState it left and the text the program printed).
RunLoop(R, cs, dt, text) ==
    /\ \A p \in R : pc[p] = "loop" /\ LoopContinues(coreState[p]) /\ quanta[p] < MaxQuanta
    /\ LET late == [p \in Procs |-> DeadlineCheck(cs, now[p] + dt, deadline[p])]
           out == [p \in Procs |-> EmuCollect(coreParameter[p], output[p], text)]
           state == [p \in Procs |-> IF late[p] THEN Core_Stop ELSE AfterFrame(cs)]
       IN  /\ quanta' = Upd(quanta, R, [p \in Procs |-> quanta[p] + 1])
           /\ output' = Upd(output, R, out)
           /\ now' = Upd(now, R, [p \in Procs |-> now[p] + dt])
           /\ doCompare' = Upd(doCompare, R,
                  [p \in Procs |-> IF late[p] THEN FALSE ELSE doCompare[p]])
           /\ coreState' = Upd(coreState, R, state)
           /\ trace' = Upd(trace, R, [p \in Procs |->
                  trace[p] \o <<Did("PSP_RunLoopFor", Str(cs) \o text)>>
                          \o EmuEcho(coreParameter[p], text)
                          \o FrameSwap(cs)
                          \o (IF late[p] THEN Timeout(opts[p], out[p]) ELSE <<>>)])
           /\ pc' = Upd(pc, R,
                  [p \in Procs |-> IF LoopContinues(state[p]) THEN "loop" ELSE "shutdown"])
    /\ UNCHANGED <<argv, teamCityName, opts, glWorking, coreParameter, deadline, exitCode>>

\* ---------------------------------------------- main: lines 332 to 346

\* host->ShutdownGL(); PSP_Shutdown(); headlessHost->FlushDebugOutput();
Cleanup == <<Did("ShutdownGL", NULL), Did("PSP_Shutdown", NULL), Did("FlushDebugOutput", NULL)>>

Shutdown(R) ==
    /\ \A p \in R : pc[p] = "shutdown"
    /\ trace' = Upd(trace, R, [p \in Procs |-> trace[p] \o Cleanup])
    /\ pc' = Upd(pc, R, [p \in Procs |-> "report"])
    /\ UNCHANGED <<argv, teamCityName, opts, glWorking, coreParameter, coreState, doCompare,
                   deadline, now, output, quanta, exitCode>>

\* Mutant of WantCompare: if (autoCompare).
WantCompareAlways(autoCompare, compare) == autoCompare

\* Mutant of WantCompare: if (doCompare).
WantCompareUnrequested(autoCompare, compare) == compare

\* if (autoCompare && doCompare)
WantCompare(autoCompare, compare) == autoCompare /\ compare

\* CompareOutput(bootFilename, output) with the verdict it reaches (trace keeps
\* the call with its verdict): a failed or erroring comparison is reported as
\* a testFailed carrying the diagnostic.
CompareOutput(o, out, verdict) ==
    <<Did("CompareOutput", Str(verdict))>>
    \o (IF verdict = "Pass" THEN <<>>
        ELSE TeamCityPrint(o.teamCityMode, "testFailed", Str(verdict)))

\* Mutant of Reporting: testFinished is printed before the comparison.
ReportingFinishedFirst(o, compare, out, verdict) ==
    TeamCityPrint(o.teamCityMode, "testFinished", NULL)
    \o (IF o.autoCompare /\ compare THEN CompareOutput(o, out, verdict) ELSE <<>>)

\* Lines 341 to 346, in order.
Reporting(o, compare, out, verdict) ==
    (IF WantCompare(o.autoCompare, compare) THEN CompareOutput(o, out, verdict) ELSE <<>>)
    \o TeamCityPrint(o.teamCityMode, "testFinished", NULL)

\* Mutant of Report: main returns 1 when the comparison did not pass.
ReportReturnsVerdict(R, verdict) ==
    /\ \A p \in R : pc[p] = "report"
    /\ trace' = Upd(trace, R, [p \in Procs |->
           trace[p] \o Reporting(opts[p], doCompare[p], output[p], verdict)])
    /\ exitCode' = Upd(exitCode, R, [p \in Procs |->
           IF WantCompare(opts[p].autoCompare, doCompare[p]) /\ verdict # "Pass"
           THEN 1 ELSE 0])
    /\ pc' = Upd(pc, R, [p \in Procs |-> "exit"])
    /\ UNCHANGED <<argv, teamCityName, opts, glWorking, coreParameter, coreState, doCompare,
                   deadline, now, output, quanta>>

\* Compare the collected output if wanted, report the end of the test, return 0.
Report(R, verdict) ==
    /\ \A p \in R : pc[p] = "report"
    /\ trace' = Upd(trace, R, [p \in Procs |->
           trace[p] \o Reporting(opts[p], doCompare[p], output[p], verdict)])
    /\ exitCode' = Upd(exitCode, R, [p \in Procs |-> 0])
    /\ pc' = Upd(pc, R, [p \in Procs |-> "exit"])
    /\ UNCHANGED <<argv, teamCityName, opts, glWorking, coreParameter, coreState, doCompare,
                   deadline, now, output, quanta>>

\* ------------------------------------------------------- specifications

\* By how much the clock may move during one call, in ticks.
Ticks == {0, 1}

\* The steps of the processes in R, taken together on the same inputs.
Steps(R) ==
    \/ Start(R)
    \/ \E working \in BOOLEAN : InitGL(R, working)
    \/ \E ok \in BOOLEAN, dt \in Ticks : PSP_Init(R, ok, dt)
    \/ \E cs \in CoreOutcomes, dt \in Ticks, text \in EmuTexts : RunLoop(R, cs, dt, text)
    \/ Shutdown(R)
    \/ \E verdict \in Verdicts : Report(R, verdict)

\* One process.
Next == Steps({Main})

Spec == Init /\ [][Next]_vars

\* The process and its twin in lock-step.
NextPair == Steps(Procs)

SpecPair == Init /\ [][NextPair]_vars

\* Main up to the derivation of the test name, on the boot file paths.
InitName == InitOn(NamedCommandLines)

NextName ==
    \/ Start({Main})
    \/ \E working \in BOOLEAN : InitGL({Main}, working)

SpecName == InitName /\ [][NextName]_vars

\* Main with a clock that moves on during every quantum, and with every call
\* it makes returning: main is one sequential thread, so it takes its next
\* step whenever it has one.
InitLive == InitOn(LiveCommandLines)

NextLive ==
    \/ Start({Main})
    \/ \E working \in BOOLEAN : InitGL({Main}, working)
    \/ \E ok \in BOOLEAN, dt \in Ticks : PSP_Init({Main}, ok, dt)
    \/ \E cs \in CoreOutcomes, text \in EmuTexts : RunLoop({Main}, cs, 1, text)
    \/ Shutdown({Main})
    \/ \E verdict \in Verdicts : Report({Main}, verdict)

SpecLive == InitLive /\ [][NextLive]_vars /\ WF_vars(NextLive)

\* ------------------------------------------------- reading the trace

\* The positions of t at which op was done.
At(t, op) == {i \in 1 .. Len(t) : t[i].op = op}

Count(t, op) == Cardinality(At(t, op))

Has(t, op) == At(t, op) # {}

\* Every op1 of t comes before every op2 of t.
Precedes(t, op1, op2) == \A i \in At(t, op1), j \in At(t, op2) : i < j

IsReporting(e) == e.op \in ReportingOps

\* The TeamCity messages of t, in order.
Events(t) == SelectSeq(t, IsReporting)

\* Everything else the process did, in order.
IsOtherwise(e) == e.op \notin ReportingOps

NonReporting(t) == SelectSeq(t, IsOtherwise)

\* The ops of a sequence of entries.
OpsOf(t) == [i \in 1 .. Len(t) |-> t[i].op]

\* Argument parsing accepted the command line of p.
PastParsing(p) == pc[p] # "main" /\ ~opts[p].returned

\* PSP_Init has been called in p and returned true / false.
Booted(p) == \E i \in At(trace[p], "PSP_Init") : trace[p][i].msg = Str("true")

BootFailed(p) == \E i \in At(trace[p], "PSP_Init") : trace[p][i].msg = Str("false")

\* p has left the loop.
LeftLoop(p) == Booted(p) /\ pc[p] \in {"shutdown", "report", "exit"}

\* The last clock reading of p is past a finite deadline.
ClockPastDeadline(p) == deadline[p] # Infinity /\ now[p] > deadline[p]

\* The run states of the specification's RunState that are terminal.
TimedOut(p) == LeftLoop(p) /\ ~doCompare[p]

Completed(p) == LeftLoop(p) /\ doCompare[p]

Exited(p) == pc[p] = "exit"

\* ------------------------------------------------------------- claims

\* C1: on every path past argument parsing, with reporting enabled, exactly
\* one testFinished is emitted, and it is the last reporting event.  (Stated
\* for a process that has exited.)
C1_FinishedOnceAndLast ==
    (Exited(Main) /\ PastParsing(Main) /\ opts[Main].teamCityMode) =>
        LET ev == Events(trace[Main])
        IN  /\ Count(ev, "testFinished") = 1
            /\ ev[Len(ev)].op = "testFinished"

\* C2: on each terminal path (boot failed, timed out, completed) ShutdownGL
\* and PSP_Shutdown are each called exactly once before the process exits,
\* ShutdownGL first.
C2_CleanupOnceInOrder ==
    (Exited(Main) /\ PastParsing(Main)) =>
        /\ Count(trace[Main], "ShutdownGL") = 1
        /\ Count(trace[Main], "PSP_Shutdown") = 1
        /\ Precedes(trace[Main], "ShutdownGL", "PSP_Shutdown")

\* C3: when the clock is past a finite deadline as the loop is left, the run
\* is timed out (doCompare cleared, Core_Stop requested), the collected
\* output has been printed before the "Test timeout" testFailed, and that
\* testFailed comes before testFinished.
C3_TimeoutFlushThenFailedThenFinished ==
    (LeftLoop(Main) /\ ClockPastDeadline(Main)) =>
        LET t == trace[Main]
        IN  /\ TimedOut(Main)
            /\ Count(t, "Core_Stop") = 1
            /\ Count(t, "printf") = 1
            /\ \A i \in At(t, "printf") : t[i].msg = output[Main]
            /\ opts[Main].teamCityMode =>
                  /\ Count(t, "testFailed") = 1
                  /\ \A i \in At(t, "testFailed") : t[i].msg = Str("Test timeout")
                  /\ Precedes(t, "printf", "testFailed")
                  /\ Exited(Main) =>
                        /\ Has(t, "testFinished")
                        /\ Precedes(t, "testFailed", "testFinished")

\* C3 witness: a reporting run with collected output has timed out and exited.
C3_Witness ==
    /\ Exited(Main) /\ LeftLoop(Main) /\ ClockPastDeadline(Main)
    /\ opts[Main].teamCityMode /\ output[Main] # <<>>

\* C4: when boot succeeds, the core stops by itself with the clock not past
\* the deadline, compare is not requested and reporting is on, the events
\* of the run are exactly testStarted then testFinished.
C4_StartedThenFinishedOnly ==
    (Exited(Main) /\ Booted(Main) /\ ~ClockPastDeadline(Main)
       /\ ~opts[Main].autoCompare /\ opts[Main].teamCityMode) =>
        OpsOf(Events(trace[Main])) = <<"testStarted", "testFinished">>

\* C4 witness: such a run, under a finite deadline, after two quanta.
C4_Witness ==
    /\ Exited(Main) /\ Booted(Main) /\ ~ClockPastDeadline(Main)
    /\ ~opts[Main].autoCompare /\ opts[Main].teamCityMode
    /\ deadline[Main] # Infinity /\ quanta[Main] = 2

\* C5: at most one of testStarted / testIgnored is emitted; testStarted only
\* after PSP_Init succeeded and before the first quantum; testIgnored only
\* when PSP_Init failed; and after a failed PSP_Init no quantum is run.
C5_StartedXorIgnored ==
    LET t == trace[Main]
    IN  /\ Count(t, "testStarted") + Count(t, "testIgnored") <= 1
        /\ Has(t, "testStarted") =>
              /\ Booted(Main)
              /\ Precedes(t, "PSP_Init", "testStarted")
              /\ Precedes(t, "testStarted", "PSP_RunLoopFor")
        /\ Has(t, "testIgnored") => BootFailed(Main)
        /\ BootFailed(Main) => ~Has(t, "PSP_RunLoopFor") /\ quanta[Main] = 0
        /\ (Booted(Main) /\ opts[Main].teamCityMode) => Has(t, "testStarted")

\* C5 witness: a failed boot has been reported as ignored.
C5_Witness == BootFailed(Main) /\ Has(trace[Main], "testIgnored") /\ Exited(Main)

\* C6: when the run completed, compare was requested and reporting is on,
\* CompareOutput is called once; if its verdict is Fail or Error a testFailed
\* carrying that diagnostic is emitted before testFinished, and if it is Pass
\* no testFailed is emitted.
C6_ComparisonVerdictReported ==
    (Exited(Main) /\ Completed(Main) /\ opts[Main].autoCompare /\ opts[Main].teamCityMode) =>
        LET t == trace[Main]
        IN  /\ Count(t, "CompareOutput") = 1
            /\ \A i \in At(t, "CompareOutput") :
                  IF t[i].msg = Str("Pass")
                  THEN ~Has(t, "testFailed")
                  ELSE /\ Count(t, "testFailed") = 1
                       /\ \A j \in At(t, "testFailed") : t[j].msg = t[i].msg
                       /\ Has(t, "testFinished")
                       /\ Precedes(t, "testFailed", "testFinished")

\* C6 witness: a completed, compared, reporting run whose comparison erred.
C6_Witness ==
    /\ Exited(Main) /\ Completed(Main) /\ opts[Main].autoCompare /\ opts[Main].teamCityMode
    /\ \E i \in At(trace[Main], "testFailed") : trace[Main][i].msg = Str("Error")

\* C7: at most one testFailed is emitted in any run, whatever the number of
\* quanta and the order of frame swaps, deadline expiry and completion.
C7_AtMostOneFailed == Count(trace[Main], "testFailed") <= 1

\* C7 witness: a run with compare requested timed out in its second quantum,
\* after a frame swap, and has exited having reported the timeout.
C7_Witness ==
    /\ Exited(Main) /\ TimedOut(Main) /\ opts[Main].autoCompare
    /\ quanta[Main] = 2 /\ Has(trace[Main], "SwapBuffers")
    /\ Count(trace[Main], "testFailed") = 1

\* C8: the exit code is 1 exactly when argument parsing rejected the command
\* line or PSP_Init failed; a run that booted exits 0, timed out or not,
\* whatever the comparison found.
C8_ExitCode ==
    Exited(Main) =>
        /\ exitCode[Main] \in {0, 1}
        /\ exitCode[Main] = 1 <=> (opts[Main].returned \/ BootFailed(Main))
        /\ Booted(Main) => exitCode[Main] = 0

\* C8 witness: a run whose comparison failed has exited with code 0.
C8_Witness ==
    /\ Exited(Main) /\ exitCode[Main] = 0
    /\ \E i \in At(trace[Main], "CompareOutput") : trace[Main][i].msg = Str("Fail")

\* The options of o with reporting switched off.
Quiet(o) == [o EXCEPT !.teamCityMode = FALSE]

\* The two processes differ in the reporting flag and in nothing else.
DifferInReportingOnly ==
    /\ PastParsing(Main) /\ PastParsing(Twin)
    /\ ~opts[Main].teamCityMode /\ opts[Twin].teamCityMode
    /\ opts[Main] = Quiet(opts[Twin])

\* C9 (SpecPair): of two runs on the same collaborator behaviour that differ
\* only in the reporting flag, the one with reporting off emits no reporting
\* event, and both do the same other things in the same order, stand at the
\* same place and return the same exit code.
C9_ReportingDoesNotInterfere ==
    DifferInReportingOnly =>
        /\ Events(trace[Main]) = <<>>
        /\ NonReporting(trace[Main]) = NonReporting(trace[Twin])
        /\ pc[Main] = pc[Twin]
        /\ exitCode[Main] = exitCode[Twin]
        /\ coreState[Main] = coreState[Twin] /\ doCompare[Main] = doCompare[Twin]
        /\ output[Main] = output[Twin]

\* C9 witness: both runs timed out and exited, the reporting one having
\* reported the timeout.
C9_Witness ==
    /\ DifferInReportingOnly
    /\ Exited(Main) /\ Exited(Twin) /\ TimedOut(Main)
    /\ Has(trace[Twin], "testFailed") /\ Has(trace[Twin], "testFinished")
    /\ output[Main] # <<>>

\* Argument i of args is the value of a preceding -m / --mount.
RECURSIVE IsMountValue(_, _)
IsMountValue(args, i) ==
    /\ i > 1
    /\ args[i - 1] \in {Arg("-m", ""), Arg("--mount", "")}
    /\ ~IsMountValue(args, i - 1)

\* The arguments of args read as options or boot file.
Positions(args) == {i \in 1 .. Len(args) : ~IsMountValue(args, i)}

KnownFlags ==
    { Arg("-m", ""), Arg("--mount", ""), Arg("-l", ""), Arg("--log", ""),
      Arg("-i", ""), Arg("-j", ""), Arg("-c", ""), Arg("--compare", ""),
      Arg("--graphics", ""), TeamCityArg }

KnownBackends == {"gles", "software", "directx9", "null"}

\* An argument that looks like a flag and is none the program knows.
UnrecognizedFlag(a) == a = Arg("--bogus", "")

UnknownBackend(a) == Name(a) = "--graphics=" /\ Rest(a) # "" /\ ToLower(Rest(a)) \notin KnownBackends

BootTarget(a) == Name(a) = "a.prx"

\* The malformed command lines of C10.
Malformed(args) ==
    \/ Len(args) > 0 /\ Len(args) \in Positions(args)
          /\ args[Len(args)] \in {Arg("-m", ""), Arg("--mount", "")}
    \/ \E i \in Positions(args) : UnknownBackend(args[i])
    \/ \E i \in Positions(args) : UnrecognizedFlag(args[i])
    \/ ~\E i \in Positions(args) : BootTarget(args[i])

\* C10: on a malformed command line the program prints the usage and exits
\* with code 1, without calling InitGL or PSP_Init.
C10_MalformedRejected ==
    Malformed(argv[Main]) =>
        /\ ~Has(trace[Main], "InitGL") /\ ~Has(trace[Main], "PSP_Init")
        /\ Exited(Main) => exitCode[Main] = 1 /\ Has(trace[Main], "printUsage")

\* s begins with front / ends with end.
StartsWith(s, front) == Len(s) >= Len(front) /\ SubSeq(s, 1, Len(front)) = front

EndsWith(s, end) == Len(s) >= Len(end) /\ SubSeq(s, Len(s) - Len(end) + 1, Len(s)) = end

\* The test name of p has been derived.
NameDerived(p) == pc[p] \notin {"main", "InitGL"} /\ PastParsing(p) /\ opts[p].teamCityMode

\* Nothing is left to strip from n.
Plain(n) ==
    /\ ~StartsWith(n, "tests/") /\ ~StartsWith(n, "pspautotests/tests/")
    /\ ~EndsWith(n, ".prx")

\* C11 as claimed (SpecName): deriving a name from the derived test name
\* gives the same name, for every boot file path.
C11_DeriveIdempotent ==
    NameDerived(Main) => TestName(teamCityName[Main]) = teamCityName[Main]

\* C11 as amended (SpecName): deriving a name from the derived test name
\* gives the same name whenever the derived test name begins with neither
\* "tests/" nor "pspautotests/tests/" and does not end in ".prx".
C11_DeriveIdempotentOnPlainNames ==
    (NameDerived(Main) /\ Plain(teamCityName[Main])) =>
        TestName(teamCityName[Main]) = teamCityName[Main]

\* C11 witness: "pspautotests/tests/cpu/alu.prx" has been derived to "cpu/alu".
C11_Witness ==
    /\ NameDerived(Main)
    /\ Text(opts[Main].bootFilename) = "pspautotests/tests/cpu/alu.prx"
    /\ teamCityName[Main] = "cpu/alu"
    /\ Plain(teamCityName[Main])

\* path without its first n characters / last n characters.
DropFront(path, n) == SubSeq(path, n + 1, Len(path))

DropEnd(path, n) == SubSeq(path, 1, Len(path) - n)

\* path with the longest known directory prefix it begins with removed, if
\* it begins with one.
WithoutOnePrefix(path) ==
    IF StartsWith(path, "pspautotests/tests/") THEN DropFront(path, Len("pspautotests/tests/"))
    ELSE IF StartsWith(path, "tests/") THEN DropFront(path, Len("tests/"))
    ELSE path

\* path with one ".prx" removed from its end, if it ends in one.
WithoutOneSuffix(path) ==
    IF EndsWith(path, ".prx") THEN DropEnd(path, Len(".prx")) ELSE path

GraphicsFailed(p) == pc[p] \notin {"main", "InitGL"} /\ PastParsing(p) /\ ~glWorking[p]

DeadlineSet(p) == Booted(p)

\* The timeout flush, the timeout failure or the stop request is in t.
TimeoutHandled(t) ==
    \/ Has(t, "printf") \/ Has(t, "SendDebugOutput") \/ Has(t, "Core_Stop")
    \/ \E i \in At(t, "testFailed") : t[i].msg = Str("Test timeout")

\* C13: once computed, before the first quantum, the deadline never changes;
\* with no timeout or a negative one it is unbounded and the run never times
\* out: no flush, no 'Test timeout' failure, no stop request, whatever the
\* number of quanta.
C13_DeadlineFixedUnboundedNeverTimesOut ==
    [][ /\ DeadlineSet(Main) => deadline'[Main] = deadline[Main]
        /\ (~DeadlineSet(Main) /\ DeadlineSet(Main)') =>
               /\ quanta'[Main] = 0
               /\ deadline'[Main] = IF opts[Main].timeout < 0 THEN Infinity
                                    ELSE now'[Main] + opts[Main].timeout
        /\ (DeadlineSet(Main)' /\ opts'[Main].timeout < 0) =>
               /\ deadline'[Main] = Infinity
               /\ LeftLoop(Main)' => ~TimedOut(Main)'
               /\ ~TimeoutHandled(trace'[Main]) ]_vars

\* C13 witness: --timeout=-1 was given, the clock has moved on in each of
\* MaxQuanta quanta, and the run has ended without a timeout.
C13_Witness ==
    /\ Arg("--timeout=", "-1") \in {argv[Main][i] : i \in 1 .. Len(argv[Main])}
    /\ opts[Main].timeout < 0 /\ Exited(Main) /\ Completed(Main)
    /\ quanta[Main] = MaxQuanta /\ now[Main] >= MaxQuanta

\* C14: CompareOutput is called if and only if the run completed and
\* comparing was asked for; then once, after ShutdownGL and PSP_Shutdown and
\* before testFinished.
C14_CompareIffCompletedAndRequested ==
    LET t == trace[Main]
    IN  /\ Count(t, "CompareOutput") <= 1
        /\ Has(t, "CompareOutput") =>
              /\ Completed(Main) /\ opts[Main].autoCompare
              /\ Count(t, "ShutdownGL") = 1 /\ Count(t, "PSP_Shutdown") = 1
              /\ Precedes(t, "ShutdownGL", "CompareOutput")
              /\ Precedes(t, "PSP_Shutdown", "CompareOutput")
              /\ Precedes(t, "CompareOutput", "testFinished")
        /\ (Exited(Main) /\ PastParsing(Main)) =>
              (Has(t, "CompareOutput") <=> (Completed(Main) /\ opts[Main].autoCompare))

\* C14 witness: a reporting run has compared and finished.
C14_Witness ==
    /\ Exited(Main) /\ Has(trace[Main], "CompareOutput") /\ Has(trace[Main], "testFinished")

\* C15: once the clock is found past the deadline Core_Stop is called exactly
\* once, and once the core has stopped, by that or by itself, it is never
\* advanced again.
C15_TerminalStatesAbsorbing ==
    [][ /\ Count(trace'[Main], "Core_Stop") <= 1
        /\ (LeftLoop(Main)' /\ ClockPastDeadline(Main)') =>
               Count(trace'[Main], "Core_Stop") = 1
        /\ (Booted(Main) /\ coreState[Main] # CORE_RUNNING) =>
               /\ quanta'[Main] = quanta[Main]
               /\ Count(trace'[Main], "PSP_RunLoopFor") = Count(trace[Main], "PSP_RunLoopFor")
               /\ coreState'[Main] = coreState[Main] ]_vars

\* C15 witness: a run stopped at its first quantum, with quanta to spare,
\* has gone on to exit.
C15_Witness ==
    /\ Exited(Main) /\ Count(trace[Main], "Core_Stop") = 1
    /\ quanta[Main] = 1 /\ quanta[Main] < MaxQuanta

\* The positions of the quanta in t, and the last of them.
Quanta(t) == At(t, "PSP_RunLoopFor")

LastQuantum(t) == CHOOSE i \in Quanta(t) : \A j \in Quanta(t) : j <= i

\* What a PSP_RunLoopFor entry says the quantum left in coreState, and the
\* text it says the program printed.
Left(e) == e.msg[1]

Printed(e) == Tail(e.msg)

\* The SwapBuffers of t in the iteration of the quantum at i.
SwapsOf(t, i) ==
    {j \in At(t, "SwapBuffers") : i < j /\ \A k \in Quanta(t) : ~(i < k /\ k < j)}

\* C16: a quantum that ends with a frame swap pending is followed by exactly
\* one SwapBuffers and coreState is back to running before the next quantum;
\* a quantum that ends otherwise is followed by none; and a pending frame
\* swap does not by itself end the loop.
C16_OneSwapPerPendingFrame ==
    LET t == trace[Main]
    IN  /\ \A j \in At(t, "SwapBuffers") : \E i \in Quanta(t) : j \in SwapsOf(t, i)
        /\ \A i \in Quanta(t) :
              Cardinality(SwapsOf(t, i)) = IF Left(t[i]) = CORE_NEXTFRAME THEN 1 ELSE 0
        /\ coreState[Main] # CORE_NEXTFRAME
        /\ (Quanta(t) # {} /\ Left(t[LastQuantum(t)]) = CORE_NEXTFRAME
               /\ ~ClockPastDeadline(Main)) =>
              pc[Main] = "loop" /\ coreState[Main] = CORE_RUNNING

\* C16 witness: under a finite deadline, two quanta have each ended with a
\* frame swap pending and the loop goes on.
C16_Witness ==
    /\ pc[Main] = "loop" /\ deadline[Main] # Infinity
    /\ Count(trace[Main], "PSP_RunLoopFor") = 2 /\ Count(trace[Main], "SwapBuffers") = 2

\* The text the program printed during the quanta of t, and the text echoed
\* at once during t.
RECURSIVE Emitted(_)
Emitted(t) ==
    IF t = <<>> THEN <<>>
    ELSE (IF t[1].op = "PSP_RunLoopFor" THEN Printed(t[1]) ELSE <<>>) \o Emitted(Tail(t))

RECURSIVE Echoed(_)
Echoed(t) ==
    IF t = <<>> THEN <<>>
    ELSE (IF t[1].op = "emuPrintf" THEN t[1].msg ELSE <<>>) \o Echoed(Tail(t))

\* The printf of main at position i of t is the timeout flush.
IsTimeoutFlush(t, i) == i < Len(t) /\ t[i + 1].op = "SendDebugOutput"

\* C17: with comparing off the output buffer is always empty and whatever
\* the program prints is echoed at once; with comparing on what it prints is
\* appended to the buffer and not echoed, and main prints the buffer only in
\* the timeout flush.
C17_OutputRetainedIffComparing ==
    LET t == trace[Main]
    IN  Booted(Main) =>
          IF opts[Main].autoCompare
          THEN /\ output[Main] = Emitted(t)
               /\ Echoed(t) = <<>>
               /\ \A i \in At(t, "printf") :
                     IsTimeoutFlush(t, i) /\ t[i].msg = Emitted(SubSeq(t, 1, i))
          ELSE /\ output[Main] = <<>>
               /\ Echoed(t) = Emitted(t)
               /\ \A i \in At(t, "printf") : t[i].msg = <<>>

\* C17 witness: with comparing on, the program printed in two quanta and the
\* run timed out, flushing both lines.
C17_Witness ==
    /\ opts[Main].autoCompare /\ TimedOut(Main)
    /\ Len(output[Main]) = 2
    /\ \E i \in At(trace[Main], "printf") : trace[Main][i].msg = output[Main]

\* C19: when the quantum in which the core stops by itself returns with the
\* clock past the deadline, the run is a timed-out one: the buffer is
\* flushed, 'Test timeout' is reported and the output is not compared.
C19_DeadlinePrecedesCompletion ==
    LET t == trace[Main]
    IN  (Quanta(t) # {} /\ Left(t[LastQuantum(t)]) = CORE_POWERDOWN
           /\ ClockPastDeadline(Main)) =>
          /\ TimedOut(Main)
          /\ \E i \in At(t, "printf") :
                i > LastQuantum(t) /\ IsTimeoutFlush(t, i) /\ t[i].msg = output[Main]
          /\ opts[Main].teamCityMode =>
                \E i \in At(t, "testFailed") :
                    i > LastQuantum(t) /\ t[i].msg = Str("Test timeout")
          /\ ~Has(t, "CompareOutput")

\* C19 witness: a reporting run asked to compare has exited after such a
\* quantum.
C19_Witness ==
    /\ Exited(Main) /\ opts[Main].autoCompare /\ opts[Main].teamCityMode
    /\ Quanta(trace[Main]) # {}
    /\ Left(trace[Main][LastQuantum(trace[Main])]) = CORE_POWERDOWN
    /\ ClockPastDeadline(Main)
    /\ output[Main] # <<>>

\* p has cleaned up and gone through the end of main.
CleanedUpAndFinished(p) ==
    /\ Exited(p) /\ LeftLoop(p)
    /\ Count(trace[p], "ShutdownGL") = 1 /\ Count(trace[p], "PSP_Shutdown") = 1
    /\ opts[p].teamCityMode => Has(trace[p], "testFinished")

\* The core has stopped by itself in the last quantum of p.
CoreCompleted(p) ==
    /\ Quanta(trace[p]) # {}
    /\ Left(trace[p][LastQuantum(trace[p])]) = CORE_POWERDOWN

\* C20 (SpecLive): under a finite deadline, with the clock moving on in
\* every quantum, a run that has booted eventually leaves the loop, cleans
\* up and reports testFinished, whether or not the program ever stops by
\* itself; under an unbounded deadline the run leaves the loop exactly when
\* the core stops by itself.
C20_FiniteDeadlineTerminates ==
    /\ (Booted(Main) /\ deadline[Main] # Infinity) ~> CleanedUpAndFinished(Main)
    /\ []((Booted(Main) /\ deadline[Main] = Infinity) =>
             (LeftLoop(Main) <=> CoreCompleted(Main)))

\* C20 witness: a reporting run with --timeout=1 whose program never stopped
\* by itself has cleaned up and finished, after the two quanta it took the
\* clock to pass the deadline.
C20_Witness ==
    /\ CleanedUpAndFinished(Main) /\ opts[Main].teamCityMode
    /\ opts[Main].timeout = 1 /\ deadline[Main] # Infinity
    /\ Count(trace[Main], "PSP_RunLoopFor") = 2
    /\ \A i \in Quanta(trace[Main]) : Left(trace[Main][i]) # CORE_POWERDOWN

====
